---- MODULE Spec2Model ----
(***************************************************************************)
(* Model of streamlit_app.py: the cached live-price fetch                  *)
(* (get_current_bitcoin_price under st.cache_data), the CSV loader         *)
(* (load_csv), the sentiment normalisation step and the sentiment section  *)
(* (counts, mean, filter).                                                 *)
(*                                                                         *)
(* Python values are modelled as follows.  None is the record None, a      *)
(* number returned by the API is Num(p).  A DataFrame is a record with its *)
(* index, its set of columns and its rows (one function column -> cell per *)
(* row).  A missing cell (NaN) of the score column is the value NaN, which *)
(* lies outside the score range and compares False with everything, as in  *)
(* pandas.                                                                 *)
(***************************************************************************)
EXTENDS Integers, Sequences, FiniteSets, TLC

VARIABLES
    \* ---- live price (lines 9-26, 66-78) ----
    now,                    \* the clock of the cache, in seconds
    cache,                  \* the st.cache_data entry of get_current_bitcoin_price
    netCalls,               \* number of requests.get calls issued so far
    response,               \* outcome of the most recent requests.get
    current_bitcoin_price,  \* module global, line 67
    price_view,             \* what lines 75-78 rendered
    shown,                  \* messages emitted or replayed by the last call
    last,                   \* record of the last call of get_current_bitcoin_price
    ticks,                  \* number of clock advances so far
    \* ---- CSV loads (lines 28-49) ----
    files,                  \* the price and forecast files on disk
    df,                     \* df_prices, df_arima, df_lstm, df_prophet
    load_msg,               \* the st.error shown by each load
    \* ---- sentiment (lines 51-64, 106-153) ----
    sentiment_file,         \* crypto_sentiment.csv on disk
    df_sentiment,           \* module global, lines 52-64
    norm_msg,               \* message shown by lines 52-64
    sentiment_filter,       \* the selectbox of line 137
    counts,                 \* positive_tweets, neutral_tweets, negative_tweets
    avg_sentiment,          \* line 127
    market,                 \* the branch taken at lines 129-134
    filtered_df,            \* lines 138-143
    section_view,           \* what lines 145-153 rendered
    pc                      \* position of the script run

fetchVars == <<now, cache, netCalls, response, current_bitcoin_price, price_view,
               shown, last, ticks>>
loadVars == <<files, df, load_msg>>
sentVars == <<sentiment_file, df_sentiment, norm_msg, sentiment_filter, counts,
              avg_sentiment, market, filtered_df, section_view>>
vars == <<fetchVars, loadVars, sentVars, pc>>

\* ---------------------------------------------------------------- bounds
MaxTicks == 3
MaxCalls == 3
MaxPrice == 2
MaxRows == 2
MaxRecords == 3
MaxScore == 1

\* ---------------------------------------------------------------- values
None == [kind |-> "None"]
Num(p) == [kind |-> "num", v |-> p]
NaN == MaxScore + 1

\* ================================================================
\* Live price: get_current_bitcoin_price under st.cache_data(ttl=300)
\* ================================================================
TTL == 300

\* A JSON object is a record of the keys it holds and their values.
JsonBodies ==
    { [keys |-> {"bitcoin"}, bitcoin |-> [keys |-> {"usd"}, usd |-> p]] : p \in 1..MaxPrice }
    \cup { [keys |-> {"bitcoin"}, bitcoin |-> [keys |-> {}, usd |-> 0]],
           [keys |-> {}, bitcoin |-> [keys |-> {}, usd |-> 0]] }

\* What requests.get can meet: a response with a status and a body, or no response.
Outcomes ==
    { [kind |-> "response", status |-> 200, json |-> j, exc |-> "none"] : j \in JsonBodies }
    \cup { [kind |-> "response", status |-> s,
            json |-> [keys |-> {}, bitcoin |-> [keys |-> {}, usd |-> 0]], exc |-> "none"]
           : s \in {429, 500} }
    \cup { [kind |-> "noresponse", status |-> 0,
            json |-> [keys |-> {}, bitcoin |-> [keys |-> {}, usd |-> 0]], exc |-> e]
           : e \in {"Timeout", "ConnectionError"} }

NoResponse == [kind |-> "none", status |-> 0,
               json |-> [keys |-> {}, bitcoin |-> [keys |-> {}, usd |-> 0]], exc |-> "none"]

\* The exception classes of requests below a given class.
IsA(exc, class) ==
    \/ exc = class
    \/ class = "RequestException" /\ exc \in {"HTTPError", "Timeout", "ConnectionError"}

\* data.get("bitcoin", {}).get("usd", None)
ParsePrice(j) ==
    LET inner == IF "bitcoin" \in j.keys THEN j.bitcoin
                 ELSE [keys |-> {}, usd |-> 0]
    IN  IF "usd" \in inner.keys THEN Num(inner.usd) ELSE None

\* The try block, lines 14-17: the value returned or the exception raised.
TryBlock(o) ==
    IF o.kind = "noresponse"
    THEN [raised |-> TRUE, exc |-> o.exc, value |-> None]
    ELSE IF o.status >= 400
    THEN [raised |-> TRUE, exc |-> "HTTPError", value |-> None]
    ELSE [raised |-> FALSE, exc |-> "none", value |-> ParsePrice(o.json)]

\* A fetch that repeats a rate-limited request.
Attempts_Retry429(o) == IF o.status = 429 THEN 3 ELSE 1

\* Number of requests.get calls one execution of the function issues: line 14
\* stands in no loop.
Attempts(o) == 1

\* The except clauses without the one for requests.RequestException.
Handler_HttpErrorOnly(o, exc) ==
    IF IsA(exc, "HTTPError")
    THEN [caught |-> TRUE, value |-> None,
          msg |-> IF o.status = 429 THEN "warning: Too Many Requests"
                  ELSE "error: API Error"]
    ELSE [caught |-> FALSE, value |-> None, msg |-> "none"]

\* The except clauses, lines 18-26.
Handler(o, exc) ==
    IF IsA(exc, "HTTPError")
    THEN [caught |-> TRUE, value |-> None,
          msg |-> IF o.status = 429 THEN "warning: Too Many Requests"
                  ELSE "error: API Error"]
    ELSE IF IsA(exc, "RequestException")
    THEN [caught |-> TRUE, value |-> None, msg |-> "error: Error fetching Bitcoin price"]
    ELSE [caught |-> FALSE, value |-> None, msg |-> "none"]

\* One execution of the function body, lines 11-26.
get_current_bitcoin_price(o) ==
    LET t == TryBlock(o)
        h == Handler(o, t.exc)
    IN  IF ~t.raised
        THEN [raised |-> FALSE, value |-> t.value, msgs |-> {}, calls |-> Attempts(o)]
        ELSE IF h.caught
        THEN [raised |-> FALSE, value |-> h.value, msgs |-> {h.msg}, calls |-> Attempts(o)]
        ELSE [raised |-> TRUE, value |-> None, msgs |-> {}, calls |-> Attempts(o)]

\* An entry still served at the instant of its expiry.
CacheValid_Inclusive(c, t) == c.has /\ t <= c.expires

\* st.cache_data(ttl=300): an entry is served while the clock is before its expiry.
EmptyCache == [has |-> FALSE, value |-> None, msgs |-> {}, expires |-> 0]
CacheValid(c, t) == c.has /\ t < c.expires

\* Whatever the function returns is stored, None included.
CacheStore(r, t) == [has |-> TRUE, value |-> r.value, msgs |-> r.msgs, expires |-> t + TTL]

\* The last call: when it was made, whether it went to the network, and the cache,
\* the result and the time of the last fetch as they were before it.
NoCall == [n |-> 0, first |-> TRUE, time |-> 0, called |-> FALSE, attempts |-> 0,
           cacheBefore |-> EmptyCache, resultBefore |-> None, fetchedBefore |-> 0,
           fetched_at |-> 0]

\* Line 67, a cache hit: the stored value is returned and its messages replayed.
CallHit ==
    /\ pc = "L67"
    /\ CacheValid(cache, now)
    /\ current_bitcoin_price' = cache.value
    /\ shown' = cache.msgs
    /\ last' = [n |-> 1, first |-> last.n = 0, time |-> now, called |-> FALSE, attempts |-> 0,
                cacheBefore |-> cache, resultBefore |-> current_bitcoin_price,
                fetchedBefore |-> last.fetched_at, fetched_at |-> last.fetched_at]
    /\ pc' = "L75"
    /\ UNCHANGED <<now, cache, netCalls, response, price_view, ticks>>
    /\ UNCHANGED <<loadVars, sentVars>>

\* Line 67, a cache miss: the function runs against the network.
CallMiss ==
    /\ pc = "L67"
    /\ ~CacheValid(cache, now)
    /\ netCalls < MaxCalls
    /\ \E o \in Outcomes :
         LET r == get_current_bitcoin_price(o)
         IN  /\ response' = o
             /\ netCalls' = netCalls + r.calls
             /\ last' = [n |-> 1, first |-> last.n = 0, time |-> now, called |-> TRUE,
                         attempts |-> r.calls,
                         cacheBefore |-> cache, resultBefore |-> current_bitcoin_price,
                         fetchedBefore |-> last.fetched_at,
                         fetched_at |-> IF r.raised THEN last.fetched_at ELSE now]
             /\ IF r.raised
                THEN /\ pc' = "crashed"
                     /\ UNCHANGED <<cache, current_bitcoin_price, shown>>
                ELSE /\ pc' = "L75"
                     /\ cache' = CacheStore(r, now)
                     /\ current_bitcoin_price' = r.value
                     /\ shown' = r.msgs
    /\ UNCHANGED <<now, price_view, ticks>>
    /\ UNCHANGED <<loadVars, sentVars>>

\* Lines 75-78.
RenderPrice ==
    /\ pc = "L75"
    /\ price_view' = IF current_bitcoin_price # None THEN "price" ELSE "unavailable"
    /\ pc' = "end"
    /\ UNCHANGED <<now, cache, netCalls, response, current_bitcoin_price, shown, last, ticks>>
    /\ UNCHANGED <<loadVars, sentVars>>

\* A new run of the script; the cache outlives the run.
Rerun ==
    /\ pc = "end"
    /\ pc' = "L67"
    /\ price_view' = "none"
    /\ shown' = {}
    /\ UNCHANGED <<now, cache, netCalls, response, current_bitcoin_price, last, ticks>>
    /\ UNCHANGED <<loadVars, sentVars>>

\* Time passes between runs.
Tick ==
    /\ pc = "end"
    /\ ticks < MaxTicks
    /\ \E d \in {1, TTL - 1} : now' = now + d
    /\ ticks' = ticks + 1
    /\ UNCHANGED <<cache, netCalls, response, current_bitcoin_price, price_view, shown, last>>
    /\ UNCHANGED <<loadVars, sentVars, pc>>

InitFetchVars ==
    /\ now = 0
    /\ cache = EmptyCache
    /\ netCalls = 0
    /\ response = NoResponse
    /\ current_bitcoin_price = None
    /\ price_view = "none"
    /\ shown = {}
    /\ last = NoCall
    /\ ticks = 0


\* ================================================================
\* load_csv, lines 28-41, and the four loads of lines 43-49
\* ================================================================
FileNames == {"bitcoin_prices.csv", "arima_forecast.csv", "lstm_forecast.csv",
              "prophet_forecast.csv"}

\* The value column each file carries (lines 87 and 95).
ValueColumn(name) == IF name = "bitcoin_prices.csv" THEN "Price" ELSE "Forecast"

\* Two calendar dates, the earlier and the later.
Dates == {1, 2}

DateSeqs == UNION { [1..n -> Dates] : n \in 0..MaxRows }

\* A file on disk: whether it exists, whether it is well-formed CSV, its header
\* and its rows in file order.  A row is a function from the header to cells.
Unread == [read |-> FALSE, exists |-> FALSE, wellformed |-> FALSE, header |-> {}, rows |-> <<>>]

\* The cell of row i is its line number, so that rows of one date stay distinct.
CsvRows(header, dates) ==
    [i \in 1..Len(dates) |-> [c \in header |-> IF c = "Date" THEN dates[i] ELSE i]]

CsvFiles(name) ==
    { [read |-> TRUE, exists |-> TRUE, wellformed |-> TRUE,
       header |-> {"Date", ValueColumn(name)},
       rows |-> CsvRows({"Date", ValueColumn(name)}, ds)] : ds \in DateSeqs }
    \cup { [read |-> TRUE, exists |-> TRUE, wellformed |-> TRUE,
            header |-> {ValueColumn(name)}, rows |-> <<>>],
           [read |-> TRUE, exists |-> TRUE, wellformed |-> TRUE, header |-> {}, rows |-> <<>>],
           [read |-> TRUE, exists |-> TRUE, wellformed |-> FALSE, header |-> {}, rows |-> <<>>],
           [read |-> TRUE, exists |-> FALSE, wellformed |-> FALSE, header |-> {}, rows |-> <<>>] }

DataFrame(index, columns, rows) ==
    [kind |-> "DataFrame", index |-> index, columns |-> columns, rows |-> rows]

\* The dates of a sequence in ascending order, each once.
SortedDates(dates) ==
    LET S == { dates[i] : i \in 1..Len(dates) }
    IN  CHOOSE s \in [1..Cardinality(S) -> S] :
            \A i, j \in 1..Cardinality(S) : i < j => s[i] < s[j]

\* The last row of a date.
LastRowOf(rows, d) ==
    rows[CHOOSE i \in 1..Len(rows) :
            /\ rows[i]["Date"] = d
            /\ \A j \in 1..Len(rows) : rows[j]["Date"] = d => j <= i]

\* A read that sorts the rows by date and keeps the last row of each date.
read_csv_SortedUnique(f) ==
    IF ~f.exists
    THEN [raised |-> TRUE, exc |-> "FileNotFoundError", value |-> None]
    ELSE IF ~f.wellformed
    THEN [raised |-> TRUE, exc |-> "ParserError", value |-> None]
    ELSE IF f.header = {}
    THEN [raised |-> TRUE, exc |-> "EmptyDataError", value |-> None]
    ELSE IF "Date" \notin f.header
    THEN [raised |-> TRUE, exc |-> "ValueError", value |-> None]
    ELSE LET ds == SortedDates([i \in 1..Len(f.rows) |-> f.rows[i]["Date"]])
         IN  [raised |-> FALSE, exc |-> "none",
              value |-> DataFrame(ds, f.header \ {"Date"},
                                  [k \in 1..Len(ds) |->
                                      [c \in f.header \ {"Date"} |->
                                          LastRowOf(f.rows, ds[k])[c]]])]

\* pd.read_csv(filename, index_col="Date"), line 31: the Date column becomes the
\* index and is no longer a column; rows keep the order of the file.  A file
\* without a header raises EmptyDataError, one without a Date column ValueError.
read_csv(f) ==
    IF ~f.exists
    THEN [raised |-> TRUE, exc |-> "FileNotFoundError", value |-> None]
    ELSE IF ~f.wellformed
    THEN [raised |-> TRUE, exc |-> "ParserError", value |-> None]
    ELSE IF f.header = {}
    THEN [raised |-> TRUE, exc |-> "EmptyDataError", value |-> None]
    ELSE IF "Date" \notin f.header
    THEN [raised |-> TRUE, exc |-> "ValueError", value |-> None]
    ELSE [raised |-> FALSE, exc |-> "none",
          value |-> DataFrame([i \in 1..Len(f.rows) |-> f.rows[i]["Date"]],
                              f.header \ {"Date"},
                              [i \in 1..Len(f.rows) |->
                                  [c \in f.header \ {"Date"} |-> f.rows[i][c]]])]

NoMsg == [text |-> "none", names |-> {}]

\* The except clauses without the final "except Exception".
LoadHandler_NoCatchAll(exc) ==
    IF exc = "FileNotFoundError"
    THEN [caught |-> TRUE, msg |-> [text |-> "error: File Not Found", names |-> {}]]
    ELSE IF exc = "ParserError"
    THEN [caught |-> TRUE, msg |-> [text |-> "error: Error parsing", names |-> {}]]
    ELSE [caught |-> FALSE, msg |-> NoMsg]

\* The except clauses of load_csv, lines 33-41.  The last one shows str(e), which
\* for a missing index column reads "Index Date invalid".
LoadHandler(exc) ==
    IF exc = "FileNotFoundError"
    THEN [caught |-> TRUE, msg |-> [text |-> "error: File Not Found", names |-> {}]]
    ELSE IF exc = "ParserError"
    THEN [caught |-> TRUE, msg |-> [text |-> "error: Error parsing", names |-> {}]]
    ELSE [caught |-> TRUE, msg |-> [text |-> "error: Unexpected error loading",
                                    names |-> IF exc = "ValueError" THEN {"Date"} ELSE {}]]

\* load_csv(filename), lines 29-41.
load_csv(f) ==
    LET r == read_csv(f)
        h == LoadHandler(r.exc)
    IN  IF ~r.raised THEN [raised |-> FALSE, value |-> r.value, msg |-> NoMsg]
        ELSE IF h.caught THEN [raised |-> FALSE, value |-> None, msg |-> h.msg]
        ELSE [raised |-> TRUE, value |-> None, msg |-> NoMsg]

\* One of the loads of lines 44-49.
Load(at, name, next) ==
    /\ pc = at
    /\ \E f \in CsvFiles(name) :
         LET r == load_csv(f)
         IN  /\ files' = [files EXCEPT ![name] = f]
             /\ IF r.raised
                THEN pc' = "crashed" /\ UNCHANGED <<df, load_msg>>
                ELSE /\ pc' = next
                     /\ df' = [df EXCEPT ![name] = r.value]
                     /\ load_msg' = [load_msg EXCEPT ![name] = r.msg]
    /\ UNCHANGED <<fetchVars, sentVars>>

LoadPrices == Load("L44", "bitcoin_prices.csv", "L47")
LoadArima == Load("L47", "arima_forecast.csv", "L48")
LoadLstm == Load("L48", "lstm_forecast.csv", "L49")
LoadProphet == Load("L49", "prophet_forecast.csv", "L52")

InitLoadVars ==
    /\ files = [n \in FileNames |-> Unread]
    /\ df = [n \in FileNames |-> None]
    /\ load_msg = [n \in FileNames |-> NoMsg]

\* ================================================================
\* Sentiment: load and normalisation, lines 51-64
\* ================================================================
required_columns == {"Date", "Tweet", "Avg Sentiment Score"}

Scores == -MaxScore..MaxScore

\* Rows of a sentiment file: row i is tweet number i.
SentimentCells(n) == [1..n -> Scores \cup {NaN}]

SentimentRowsOf(header, cells) ==
    [i \in 1..Len(cells) |->
        [c \in header |-> IF c = "Avg Sentiment Score" THEN cells[i]
                          ELSE IF c = "Tweet" THEN i ELSE 1]]

SentimentFiles ==
    { [read |-> TRUE, exists |-> TRUE, wellformed |-> TRUE, header |-> h,
       rows |-> SentimentRowsOf(h, cells)]
      : h \in (SUBSET required_columns) \ {{}},
        cells \in UNION { SentimentCells(n) : n \in 0..MaxRows } }
    \cup { [read |-> TRUE, exists |-> TRUE, wellformed |-> TRUE, header |-> {}, rows |-> <<>>] }
    \cup { [read |-> TRUE, exists |-> TRUE, wellformed |-> FALSE, header |-> {}, rows |-> <<>>],
           [read |-> TRUE, exists |-> FALSE, wellformed |-> FALSE, header |-> {}, rows |-> <<>>] }

\* pd.DataFrame(columns=[...]), lines 59 and 64: no rows.
EmptyFrame == DataFrame(<<>>, required_columns, <<>>)

\* A check satisfied by any one of the required columns.
HasRequired_Any(columns) == required_columns \cap columns # {}

\* Line 57: required_columns.issubset(df_sentiment.columns)
HasRequired(columns) == required_columns \subseteq columns

\* Line 52.
LoadSentiment ==
    /\ pc = "L52"
    /\ \E f \in SentimentFiles :
         LET r == load_csv(f)
         IN  /\ sentiment_file' = f
             /\ IF r.raised
                THEN pc' = "crashed" /\ UNCHANGED <<df_sentiment, norm_msg>>
                ELSE /\ pc' = "L55"
                     /\ df_sentiment' = r.value
                     /\ norm_msg' = r.msg
    /\ UNCHANGED <<sentiment_filter, counts, avg_sentiment, market, filtered_df, section_view>>
    /\ UNCHANGED <<fetchVars, loadVars>>

\* Lines 55-64.  rename(columns={"Avg Sentiment Score"}) is given a set where a
\* mapping or a function is expected and raises TypeError, which nothing catches,
\* so the fillna of line 62 is never run.
Normalize ==
    /\ pc = "L55"
    /\ IF df_sentiment # None
       THEN IF ~HasRequired(df_sentiment.columns)
            THEN /\ norm_msg' = [text |-> "warning: missing required columns", names |-> {}]
                 /\ df_sentiment' = EmptyFrame
                 /\ pc' = "L107"
            ELSE /\ pc' = "crashed"
                 /\ UNCHANGED <<df_sentiment, norm_msg>>
       ELSE /\ df_sentiment' = EmptyFrame
            /\ pc' = "L107"
            /\ UNCHANGED norm_msg
    /\ UNCHANGED <<sentiment_file, sentiment_filter, counts, avg_sentiment, market,
                   filtered_df, section_view>>
    /\ UNCHANGED <<fetchVars, loadVars>>


\* ================================================================
\* Sentiment section, lines 106-153
\* ================================================================
FilterChoices == {"All", "Positive", "Neutral", "Negative"}

\* Neutral as a band around 0 instead of exact equality.
Neutral_Band(s) == s # NaN /\ s >= -1 /\ s <= 1

\* Comparisons of a score cell; NaN compares False.
Positive(s) == s # NaN /\ s > 0
Neutral(s) == s # NaN /\ s = 0
Negative(s) == s # NaN /\ s < 0

\* One cell of the boolean mask df["Avg Sentiment Score"] <cmp> 0.
Compare(s, cmp) ==
    IF cmp = ">" THEN Positive(s)
    ELSE IF cmp = "==" THEN Neutral(s)
    ELSE Negative(s)

\* df[df["Avg Sentiment Score"] <cmp> 0]: the rows whose mask is True, in order.
Mask(d, cmp) ==
    LET idx == SelectSeq([i \in 1..Len(d.rows) |-> i],
                         LAMBDA i : Compare(d.rows[i]["Avg Sentiment Score"], cmp))
    IN  DataFrame([k \in 1..Len(idx) |-> d.index[idx[k]]], d.columns,
                  [k \in 1..Len(idx) |-> d.rows[idx[k]]])

\* Lines 115-117.
SentimentCounts(d) ==
    [positive |-> Len(Mask(d, ">").rows),
     neutral |-> Len(Mask(d, "==").rows),
     negative |-> Len(Mask(d, "<").rows)]

RECURSIVE SeqSum(_)
SeqSum(s) == IF s = <<>> THEN 0 ELSE s[1] + SeqSum(Tail(s))

\* Line 127: Series.mean() skips missing cells; the mean is the fraction num/den,
\* and den = 0 stands for the NaN pandas returns when nothing is left.
Mean(d) ==
    LET cells == [i \in 1..Len(d.rows) |-> d.rows[i]["Avg Sentiment Score"]]
        vals == SelectSeq(cells, LAMBDA s : s # NaN)
    IN  [num |-> SeqSum(vals), den |-> Len(vals)]

\* Lines 129-134.
Market(m) ==
    IF m.den > 0 /\ m.num > 0 THEN "Positive Market Sentiment"
    ELSE IF m.den > 0 /\ m.num < 0 THEN "Negative Market Sentiment"
    ELSE "Neutral Market Sentiment"

\* A filter whose last branch serves Negative too.
Filter_NegativeAsNeutral(d, choice) ==
    IF choice # "All"
    THEN IF choice = "Positive" THEN Mask(d, ">") ELSE Mask(d, "==")
    ELSE d

\* Lines 138-143.
Filter(d, choice) ==
    IF choice # "All"
    THEN IF choice = "Positive" THEN Mask(d, ">")
         ELSE IF choice = "Negative" THEN Mask(d, "<")
         ELSE Mask(d, "==")
    ELSE d

\* DataFrame.empty
IsEmpty(d) == Len(d.rows) = 0 \/ d.columns = {}

\* Lines 107-153, one render of the section with the selectbox at some choice.
SentimentSection ==
    /\ pc = "L107"
    /\ IF ~IsEmpty(df_sentiment)
       THEN \E choice \in FilterChoices :
              LET f == Filter(df_sentiment, choice)
              IN  /\ sentiment_filter' = choice
                  /\ counts' = SentimentCounts(df_sentiment)
                  /\ avg_sentiment' = Mean(df_sentiment)
                  /\ market' = Market(Mean(df_sentiment))
                  /\ filtered_df' = f
                  /\ IF IsEmpty(f)
                     THEN section_view' = "warning: No tweets available" /\ pc' = "end"
                     ELSE IF required_columns \subseteq f.columns
                     THEN section_view' = "tweets" /\ pc' = "end"
                     ELSE section_view' = "none" /\ pc' = "crashed"
       ELSE /\ section_view' = "warning: Sentiment data not available"
            /\ pc' = "end"
            /\ UNCHANGED <<sentiment_filter, counts, avg_sentiment, market, filtered_df>>
    /\ UNCHANGED <<sentiment_file, df_sentiment, norm_msg>>
    /\ UNCHANGED <<fetchVars, loadVars>>

\* The user changes the selectbox and the section is rendered again.
Reselect ==
    /\ pc = "end"
    /\ pc' = "L107"
    /\ counts' = None
    /\ avg_sentiment' = None
    /\ market' = "none"
    /\ filtered_df' = None
    /\ section_view' = "none"
    /\ UNCHANGED <<sentiment_file, df_sentiment, norm_msg, sentiment_filter>>
    /\ UNCHANGED <<fetchVars, loadVars>>

InitSentVars ==
    /\ sentiment_file = Unread
    /\ df_sentiment = None
    /\ norm_msg = NoMsg
    /\ sentiment_filter = "All"
    /\ counts = None
    /\ avg_sentiment = None
    /\ market = "none"
    /\ filtered_df = None
    /\ section_view = "none"

\* Normalised sentiment records: every record has its three columns and a score.
RecordFrames ==
    { DataFrame([i \in 1..Len(cells) |-> i], required_columns,
                SentimentRowsOf(required_columns, cells))
      : cells \in UNION { [1..n -> Scores] : n \in 0..MaxRecords } }

\* ================================================================
\* Specifications.  The four parts of the script share no state; each is
\* checked as a specification of its own.
\* ================================================================

\* The live price across reruns of the script.
InitFetch == InitFetchVars /\ InitLoadVars /\ InitSentVars /\ pc = "L67"
NextFetch == CallHit \/ CallMiss \/ RenderPrice \/ Rerun \/ Tick
SpecFetch == InitFetch /\ [][NextFetch]_vars

\* The four price and forecast loads.
InitLoad == InitFetchVars /\ InitLoadVars /\ InitSentVars /\ pc = "L44"
NextLoad == LoadPrices \/ LoadArima \/ LoadLstm \/ LoadProphet
SpecLoad == InitLoad /\ [][NextLoad]_vars

\* The sentiment file from disk to the sentiment section.
InitPipeline == InitFetchVars /\ InitLoadVars /\ InitSentVars /\ pc = "L52"
NextPipeline == LoadSentiment \/ Normalize \/ SentimentSection
SpecPipeline == InitPipeline /\ [][NextPipeline]_vars

\* The sentiment section over any normalised records.
InitSentiment ==
    /\ InitFetchVars /\ InitLoadVars
    /\ sentiment_file = Unread
    /\ df_sentiment \in RecordFrames
    /\ norm_msg = NoMsg
    /\ sentiment_filter = "All"
    /\ counts = None
    /\ avg_sentiment = None
    /\ market = "none"
    /\ filtered_df = None
    /\ section_view = "none"
    /\ pc = "L107"
NextSentiment == SentimentSection \/ Reselect
SpecSentiment == InitSentiment /\ [][NextSentiment]_vars


\* ================================================================
\* Properties
\* ================================================================

\* ---------------------------------------------------------------- live price
JustCalled == pc = "L75"

\* A request failed when it produced no price.
Failed(result) == result = None

\* The price a response carries, read off the response itself.
ExpectedPrice(o) ==
    IF /\ o.kind = "response"
       /\ o.status = 200
       /\ "bitcoin" \in o.json.keys
       /\ "usd" \in o.json.bitcoin.keys
    THEN Num(o.json.bitcoin.usd)
    ELSE None

\* C1: a failed fetch writes no cache entry (the cache is the same after the
\* failed request as before it), and the request that follows a failed one
\* issues a new network call.
C1_FailedFetchLeavesCacheUntouched ==
    JustCalled =>
        /\ (last.called /\ Failed(current_bitcoin_price)) => cache = last.cacheBefore
        /\ (~last.first /\ Failed(last.resultBefore)) => last.called

\* C2: after a successful fetch at time t, a request before t + TTL returns the
\* stored value and issues no network call; a request at or after t + TTL issues
\* a new network call.
C2_ServedFromCacheUntilTtl ==
    (JustCalled /\ last.cacheBefore.has /\ ~Failed(last.cacheBefore.value)) =>
        /\ last.time < last.fetchedBefore + TTL =>
              /\ ~last.called
              /\ last.attempts = 0
              /\ current_bitcoin_price = last.cacheBefore.value
              /\ cache = last.cacheBefore
        /\ last.time >= last.fetchedBefore + TTL => last.called

\* C2 witness: a request exactly TTL seconds after a successful fetch goes to the
\* network again.
C2_Witness ==
    /\ JustCalled
    /\ last.cacheBefore.has /\ ~Failed(last.cacheBefore.value)
    /\ last.time = last.fetchedBefore + TTL
    /\ last.called

\* C3 as stated: a request answered 429 fails only after three attempts.
C3_RetriesUntilExhausted ==
    (JustCalled /\ last.called /\ response.status = 429 /\ Failed(current_bitcoin_price))
        => last.attempts = 3

\* C3 as amended: a request answered 429 makes a single attempt, without wait or
\* retry, shows the 'Too Many Requests' warning and returns None.
C3_Single429Fails ==
    (JustCalled /\ last.called /\ response.status = 429) =>
        /\ last.attempts = 1
        /\ current_bitcoin_price = None
        /\ shown = {"warning: Too Many Requests"}

\* C3 witness: a request that went to the network and was answered 429.
C3_Witness == JustCalled /\ last.called /\ response.status = 429

\* C4: for every fetch outcome the call returns the price of the response or
\* None, never raises and never puts another value in place of a missing price;
\* on None the caller renders the 'unavailable' state.
C4_TotalOverOutcomes ==
    /\ pc # "crashed"
    /\ last.n > 0 =>
          /\ current_bitcoin_price = ExpectedPrice(response)
          /\ current_bitcoin_price # None =>
                current_bitcoin_price.v \in 1..MaxPrice
    /\ pc = "end" =>
          price_view = IF current_bitcoin_price = None THEN "unavailable" ELSE "price"

\* C4 witness: a timed-out fetch has been rendered as 'unavailable' and a fetch
\* without the currency key as well.
C4_Witness ==
    /\ pc = "end"
    /\ price_view = "unavailable"
    /\ \/ response.exc = "Timeout"
       \/ response.status = 200 /\ "usd" \notin response.json.bitcoin.keys

\* ---------------------------------------------------------------- loads
Loadable(f) == f.read /\ f.exists /\ f.wellformed /\ "Date" \in f.header

\* C6 as stated: a loaded dataset is sorted ascending by date with unique dates.
C6_SortedUniqueDates ==
    \A n \in FileNames :
        df[n] # None =>
            \A i, j \in 1..Len(df[n].index) : i < j => df[n].index[i] < df[n].index[j]

\* C6 as amended: a valid CSV with its Date column loads, and the dataset holds
\* the rows of the file in the order of the file, rows of a repeated date included.
C6_RowsInFileOrder ==
    \A n \in FileNames :
        Loadable(files[n]) =>
            /\ df[n] # None
            /\ load_msg[n] = NoMsg
            /\ Len(df[n].index) = Len(files[n].rows)
            /\ Len(df[n].rows) = Len(files[n].rows)
            /\ \A i \in 1..Len(files[n].rows) :
                  /\ df[n].index[i] = files[n].rows[i]["Date"]
                  /\ df[n].rows[i][ValueColumn(n)] = files[n].rows[i][ValueColumn(n)]

\* C6 witness: a file whose dates are not ascending, or repeat, has been loaded.
C6_Witness ==
    \E n \in FileNames :
        /\ Loadable(files[n])
        /\ df[n] # None
        /\ Len(df[n].index) = 2
        /\ df[n].index[1] >= df[n].index[2]

\* C7: load never raises; a missing file gives the NotFound failure, an
\* unparsable one the ParseError failure, any other error a failure; a failure
\* carries no dataset and a dataset is complete; the result of one load depends
\* on its own file alone, whatever the other loads did.
C7_LoadTotalAndAllOrNothing ==
    /\ pc # "crashed"
    /\ \A n \in FileNames :
          /\ ~files[n].read => (df[n] = None /\ load_msg[n] = NoMsg)
          /\ (files[n].read /\ ~files[n].exists) =>
                (df[n] = None /\ load_msg[n].text = "error: File Not Found")
          /\ (files[n].read /\ files[n].exists /\ ~files[n].wellformed) =>
                (df[n] = None /\ load_msg[n].text = "error: Error parsing")
          /\ (files[n].read /\ files[n].exists /\ files[n].wellformed
                /\ "Date" \notin files[n].header) =>
                (df[n] = None /\ load_msg[n].text = "error: Unexpected error loading")
          /\ df[n] = None <=> load_msg[n] # NoMsg \/ ~files[n].read
          /\ Loadable(files[n]) =>
                (df[n] # None /\ load_msg[n] = NoMsg
                   /\ Len(df[n].rows) = Len(files[n].rows))

\* C7 witness: all four loads are done; three failed, each in its own way, and
\* the remaining one holds its dataset.
C7_Witness ==
    /\ pc = "L52"
    /\ ~files["bitcoin_prices.csv"].exists
    /\ Loadable(files["arima_forecast.csv"]) /\ Len(df["arima_forecast.csv"].rows) = 2
    /\ files["lstm_forecast.csv"].exists /\ ~files["lstm_forecast.csv"].wellformed
    /\ files["prophet_forecast.csv"].wellformed
    /\ "Date" \notin files["prophet_forecast.csv"].header

\* ---------------------------------------------------------------- sentiment source
Normalized == pc \in {"L107", "end"}
Parsed(f) == f.read /\ f.exists /\ f.wellformed
MissingColumns(f) == required_columns \ f.header

\* C5 as stated: a sentiment source that lacks a required column yields an error
\* naming exactly the missing columns, and none of its rows goes downstream.
C5_SchemaMismatchNamesMissing ==
    (Normalized /\ Parsed(sentiment_file) /\ MissingColumns(sentiment_file) # {}) =>
        /\ norm_msg.names = MissingColumns(sentiment_file)
        /\ Len(df_sentiment.rows) = 0

\* C5 as amended: a sentiment source that lacks a required column is reported by
\* one message (the loader's 'Unexpected error' when the Date column is the one
\* missing, a warning that names no column otherwise) and replaced by the empty
\* default dataset of the three required columns; no row of the source goes
\* downstream, and the section shows 'not available'.
C5_MissingColumnsGiveEmptyDefault ==
    (Parsed(sentiment_file) /\ MissingColumns(sentiment_file) # {}) =>
        /\ pc # "crashed"
        /\ Normalized =>
              /\ df_sentiment = EmptyFrame
              /\ IF "Date" \in sentiment_file.header
                 THEN norm_msg = [text |-> "warning: missing required columns", names |-> {}]
                 ELSE /\ norm_msg.text = "error: Unexpected error loading"
                      /\ norm_msg.names \subseteq {"Date"}
        /\ pc = "end" => section_view = "warning: Sentiment data not available"

\* C5 witness: a source with rows but without its score column went through.
C5_Witness ==
    /\ pc = "end"
    /\ Parsed(sentiment_file)
    /\ MissingColumns(sentiment_file) = {"Avg Sentiment Score"}
    /\ Len(sentiment_file.rows) > 0
    /\ df_sentiment = EmptyFrame

\* C10: a sentiment source that loads with Date, Tweet and Avg Sentiment Score is
\* normalised without error and keeps every row with its score, a missing score
\* replaced by 0.
C10_NormalizationKeepsRows ==
    (Parsed(sentiment_file) /\ MissingColumns(sentiment_file) = {}) =>
        /\ pc # "crashed"
        /\ Normalized =>
              /\ Len(df_sentiment.rows) = Len(sentiment_file.rows)
              /\ \A i \in 1..Len(sentiment_file.rows) :
                    df_sentiment.rows[i]["Avg Sentiment Score"] =
                        IF sentiment_file.rows[i]["Avg Sentiment Score"] = NaN THEN 0
                        ELSE sentiment_file.rows[i]["Avg Sentiment Score"]

\* ---------------------------------------------------------------- sentiment section
ScoreOf(d, i) == d.rows[i]["Avg Sentiment Score"]

\* The tweets of a frame.
TweetsOf(d) == { d.rows[k]["Tweet"] : k \in 1..Len(d.rows) }

\* The tweets of a frame whose score has a given sign (1, 0 or -1).
TweetsOfSign(d, sign) ==
    { d.rows[i]["Tweet"] : i \in { k \in 1..Len(d.rows) :
        \/ sign = 1 /\ ScoreOf(d, k) > 0
        \/ sign = 0 /\ ScoreOf(d, k) = 0
        \/ sign = -1 /\ ScoreOf(d, k) < 0 } }

\* C8: the Positive, Neutral and Negative filters partition the records (each
\* record in exactly one, by score > 0, = 0, < 0), All returns the records as
\* they are, and the three sizes are the counts of the summary.
C8_FiltersPartition ==
    LET d == df_sentiment
        pos == Filter(d, "Positive")
        neu == Filter(d, "Neutral")
        neg == Filter(d, "Negative")
    IN  /\ TweetsOf(pos) = TweetsOfSign(d, 1)
        /\ TweetsOf(neu) = TweetsOfSign(d, 0)
        /\ TweetsOf(neg) = TweetsOfSign(d, -1)
        /\ Len(pos.rows) + Len(neu.rows) + Len(neg.rows) = Len(d.rows)
        /\ \A i \in 1..Len(d.rows) :
              Cardinality({ f \in {pos, neu, neg} : d.rows[i]["Tweet"] \in TweetsOf(f) }) = 1
        /\ Filter(d, "All") = d
        /\ (pc = "end" /\ ~IsEmpty(d)) =>
              /\ counts = [positive |-> Len(pos.rows), neutral |-> Len(neu.rows),
                           negative |-> Len(neg.rows)]
              /\ filtered_df = Filter(d, sentiment_filter)
              /\ sentiment_filter = "Negative" => TweetsOf(filtered_df) = TweetsOfSign(d, -1)

\* C8 witness: records of all three signs, shown with the Negative filter.
C8_Witness ==
    /\ pc = "end"
    /\ sentiment_filter = "Negative"
    /\ Len(df_sentiment.rows) = 3
    /\ \A sign \in {-1, 0, 1} : Cardinality(TweetsOfSign(df_sentiment, sign)) = 1
    /\ Len(filtered_df.rows) = 1

\* The sum of the scores, value by value.
RECURSIVE SumByValue(_, _)
SumByValue(d, values) ==
    IF values = {} THEN 0
    ELSE LET v == CHOOSE x \in values : TRUE
         IN  v * Cardinality({ i \in 1..Len(d.rows) : ScoreOf(d, i) = v })
               + SumByValue(d, values \ {v})

\* C9: the summary of no records is the 'not available' outcome, with no mean;
\* the summary of records holds the counts of scores > 0, = 0 and < 0 and the
\* arithmetic mean of all scores; one record of score 0 gives (0, 1, 0), mean 0.
C9_Summary ==
    pc = "end" =>
        IF Len(df_sentiment.rows) = 0
        THEN /\ section_view = "warning: Sentiment data not available"
             /\ avg_sentiment = None
             /\ counts = None
        ELSE /\ counts.positive = Cardinality(TweetsOfSign(df_sentiment, 1))
             /\ counts.neutral = Cardinality(TweetsOfSign(df_sentiment, 0))
             /\ counts.negative = Cardinality(TweetsOfSign(df_sentiment, -1))
             /\ avg_sentiment.den = Len(df_sentiment.rows)
             /\ avg_sentiment.num = SumByValue(df_sentiment, Scores)
             /\ (Len(df_sentiment.rows) = 1 /\ ScoreOf(df_sentiment, 1) = 0) =>
                   /\ counts = [positive |-> 0, neutral |-> 1, negative |-> 0]
                   /\ avg_sentiment.num = 0

\* C9 witness: the summary of a single record of score 0.
C9_Witness ==
    /\ pc = "end"
    /\ Len(df_sentiment.rows) = 1
    /\ ScoreOf(df_sentiment, 1) = 0
    /\ counts = [positive |-> 0, neutral |-> 1, negative |-> 0]
    /\ avg_sentiment = [num |-> 0, den |-> 1]

====
